---- MODULE Spec2Model ----
(***************************************************************************)
(* scripts/fix-unused-manual.py: the ESLint no-unused-vars patcher.        *)
(* Text is a sequence of one-character strings; a file on disk is one such *)
(* sequence, a buffer (readlines) is a sequence of lines, each line        *)
(* keeping its terminator.                                                 *)
(***************************************************************************)
EXTENDS Integers, Sequences, FiniteSets, TLC

VARIABLES
    reportFile,     \* state of /tmp/eslint-unused-vars-filtered.json: "ok", "missing", "badjson"
    eslint_output,  \* the parsed report: a sequence of file entries
    noaccess,       \* per path: "ok", "unreadable" or "unwritable"
    disk0,          \* the files as they were before the first run
    disk,           \* the files on disk now
    run,            \* 1 for the first run of the script, 2 for a second one
    disk1,          \* the files as the first run left them
    pc,             \* "start", "entry", "msg", "done", "crashed"
    fi,             \* index of the file entry the outer loop is at
    lines,          \* the buffer of the current file
    lines0,         \* the buffer as readlines returned it
    errors,         \* the current entry's messages, sorted
    ei,             \* index of the message the inner loop is at
    total_fixed,    \* the fix counter
    out,            \* what the script has printed in this run
    written,        \* indices of the entries written back in this run
    crash           \* the uncaught exception that ended the run, and its line

vars == <<reportFile, eslint_output, noaccess, disk0, disk, run, disk1, pc, fi,
          lines, lines0, errors, ei, total_fixed, out, written, crash>>

----------------------------------------------------------------------------
(* Characters and the regular-expression classes \w, \s and \b.            *)

Letters ==
    {"a", "b", "c", "d", "e", "f", "g", "h", "i", "j", "k", "l", "m",
     "n", "o", "p", "q", "r", "s", "t", "u", "v", "w", "x", "y", "z",
     "A", "B", "C", "D", "E", "F", "G", "H", "I", "J", "K", "L", "M",
     "N", "O", "P", "Q", "R", "S", "T", "U", "V", "W", "X", "Y", "Z"}

Digits == {"0", "1", "2", "3", "4", "5", "6", "7", "8", "9"}

WordChars == Letters \cup Digits \cup {"_"}

SpaceChars == {" ", "\t", "\n", "\r", "\f"}

IsWord(s, i) == i >= 1 /\ i <= Len(s) /\ s[i] \in WordChars

\* \b just before position i (i = Len(s) + 1 is the end of the text)
Boundary(s, i) == IsWord(s, i - 1) # IsWord(s, i)

\* the text t stands in s from position i on
StartsAt(s, i, t) ==
    /\ i >= 1
    /\ i + Len(t) - 1 <= Len(s)
    /\ \A k \in 1..Len(t) : s[i + k - 1] = t[k]

\* Python's  t in s
Contains(s, t) == \E i \in 1..(Len(s) - Len(t) + 1) : StartsAt(s, i, t)

Min(S) == CHOOSE m \in S : \A n \in S : m <= n

Max(S) == CHOOSE m \in S : \A n \in S : m >= n

\* the number of whitespace characters standing in s from position i on (\s*)
SpaceRun(s, i) ==
    LET stops == {k \in i..(Len(s) + 1) : k > Len(s) \/ s[k] \notin SpaceChars}
    IN  Min(stops) - i

\* the number of word characters standing in s from position i on (\w*)
WordRun(s, i) ==
    LET stops == {k \in i..(Len(s) + 1) : ~IsWord(s, k)}
    IN  Min(stops) - i

\* str.strip()
Strip(s) ==
    LET keep == {k \in 1..Len(s) : s[k] \notin SpaceChars}
    IN  IF keep = {} THEN <<>> ELSE SubSeq(s, Min(keep), Max(keep))

----------------------------------------------------------------------------
(* The message pattern                                                     *)
(*   '([^']+)' is (defined but never used|assigned a value but never used) *)

Quote == "'"

IsDefined == <<"'", " ", "i", "s", " ", "d", "e", "f", "i", "n", "e", "d", " ", "b", "u", "t", " ", "n", "e", "v", "e", "r", " ", "u", "s", "e", "d">>

IsAssigned == <<"'", " ", "i", "s", " ", "a", "s", "s", "i", "g", "n", "e", "d", " ", "a", " ", "v", "a", "l", "u", "e", " ", "b", "u", "t", " ", "n", "e", "v", "e", "r", " ", "u", "s", "e", "d">>

AllowedCaught == <<"A", "l", "l", "o", "w", "e", "d", " ", "u", "n", "u", "s", "e", "d", " ", "c", "a", "u", "g", "h", "t", " ", "e", "r", "r", "o", "r", "s">>

\* the first quote after position p, or 0
NextQuote(s, p) ==
    LET qs == {q \in (p + 1)..Len(s) : s[q] = Quote}
    IN  IF qs = {} THEN 0 ELSE Min(qs)

\* the pattern matches with its opening quote at p
MessageMatchAt(s, p) ==
    /\ s[p] = Quote
    /\ LET q == NextQuote(s, p)
       IN  /\ q > p + 1
           /\ StartsAt(s, q, IsDefined) \/ StartsAt(s, q, IsAssigned)

\* re.search(...).group(1), or the empty text when there is no match
var_name_of(message) ==
    LET ps == {p \in 1..Len(message) : MessageMatchAt(message, p)}
    IN  IF ps = {} THEN <<>>
        ELSE LET p == Min(ps) IN SubSeq(message, p + 1, NextQuote(message, p) - 1)

\* var_name.startswith('_')
AlreadyPrefixed(var_name) == var_name[1] = "_"

new_var_name_of(var_name) == <<"_">> \o var_name

----------------------------------------------------------------------------
(* re.sub's replacement template: a backslash in the replacement text is   *)
(* an escape.                                                              *)

Backslash == "\\"

TemplateEscapes ==
    [n |-> "\n", t |-> "\t", r |-> "\r", f |-> "\f", a |-> "BEL", b |-> "BS", v |-> "VT"]

\* the escapes the template parser rejects: \g without a group, a group
\* number (the patterns have no group), any other ASCII letter, a final backslash
BadEscape(c) ==
    \/ c \in (Digits \ {"0"})
    \/ c \in Letters /\ c \notin DOMAIN TemplateEscapes

RECURSIVE TemplateOkFrom(_, _)
TemplateOkFrom(t, i) ==
    IF i > Len(t) THEN TRUE
    ELSE IF t[i] # Backslash THEN TemplateOkFrom(t, i + 1)
    ELSE IF i = Len(t) THEN FALSE
    ELSE IF BadEscape(t[i + 1]) THEN FALSE
    ELSE TemplateOkFrom(t, i + 2)

TemplateOk(t) == TemplateOkFrom(t, 1)

RECURSIVE ExpandFrom(_, _)
ExpandFrom(t, i) ==
    IF i > Len(t) THEN <<>>
    ELSE IF t[i] # Backslash \/ i = Len(t) THEN <<t[i]>> \o ExpandFrom(t, i + 1)
    ELSE LET c == t[i + 1]
         IN  IF c \in DOMAIN TemplateEscapes
                 THEN <<TemplateEscapes[c]>> \o ExpandFrom(t, i + 2)
             ELSE IF c = Backslash THEN <<Backslash>> \o ExpandFrom(t, i + 2)
             ELSE IF c = "0" THEN <<"NUL">> \o ExpandFrom(t, i + 2)
             ELSE <<Backslash, c>> \o ExpandFrom(t, i + 2)

\* the text a match is replaced by
ExpandTemplate(t) == ExpandFrom(t, 1)

----------------------------------------------------------------------------
(* The two substitutions.                                                  *)

\* \b{re.escape(var_name)}\b matches at position i
WordMatchAt(s, i, var_name) ==
    /\ StartsAt(s, i, var_name)
    /\ Boundary(s, i)
    /\ Boundary(s, i + Len(var_name))

RECURSIVE WordSubFrom(_, _, _, _)
WordSubFrom(s, i, var_name, repl) ==
    IF i > Len(s) THEN <<>>
    ELSE IF WordMatchAt(s, i, var_name)
        THEN repl \o WordSubFrom(s, i + Len(var_name), var_name, repl)
    ELSE <<s[i]>> \o WordSubFrom(s, i + 1, var_name, repl)

\* re.sub(rf'\b{re.escape(var_name)}\b', new_var_name, line)
WordSub(line, var_name) ==
    WordSubFrom(line, 1, var_name, ExpandTemplate(new_var_name_of(var_name)))

Catch == <<"c", "a", "t", "c", "h">>

CatchOpen == <<"c", "a", "t", "c", "h", " ", "(">>

\* \bcatch\s*\(\s*{re.escape(var_name)}\s*\) matches at position i: the
\* position after the match, or 0. The \s* before the name gives back
\* whitespace when the name itself begins with some.
CatchMatchEnd(s, i, var_name) ==
    IF ~(Boundary(s, i) /\ StartsAt(s, i, Catch)) THEN 0
    ELSE LET j == i + Len(Catch) + SpaceRun(s, i + Len(Catch))
         IN  IF ~(j <= Len(s) /\ s[j] = "(") THEN 0
             ELSE LET close(k) == k + Len(var_name) + SpaceRun(s, k + Len(var_name))
                      ks == {k \in (j + 1)..(j + 1 + SpaceRun(s, j + 1)) :
                                /\ StartsAt(s, k, var_name)
                                /\ close(k) <= Len(s)
                                /\ s[close(k)] = ")"}
                  IN  IF ks = {} THEN 0 ELSE close(Max(ks)) + 1

RECURSIVE CatchSubFrom(_, _, _, _)
CatchSubFrom(s, i, var_name, repl) ==
    IF i > Len(s) THEN <<>>
    ELSE LET e == CatchMatchEnd(s, i, var_name)
         IN  IF e # 0 THEN repl \o CatchSubFrom(s, e, var_name, repl)
             ELSE <<s[i]>> \o CatchSubFrom(s, i + 1, var_name, repl)

\* re.sub(rf'\bcatch\s*\(\s*{re.escape(var_name)}\s*\)', f'catch ({new_var_name})', line)
CatchSub(line, var_name) ==
    CatchSubFrom(line, 1, var_name,
                 ExpandTemplate(CatchOpen \o new_var_name_of(var_name) \o <<")">>))

----------------------------------------------------------------------------
(* The if/elif chain that picks the substitution.                          *)

Import == <<"i", "m", "p", "o", "r", "t">>

ImportStar == <<"i", "m", "p", "o", "r", "t", " ", "*">>

Arrow == <<"=", ">">>

AsyncSpace == <<"a", "s", "y", "n", "c", " ">>

Async == <<"a", "s", "y", "n", "c">>

Function == <<"f", "u", "n", "c", "t", "i", "o", "n">>

\* function\s+\w+\s*\( stands in s from position i on
FunctionHeadAt(s, i) ==
    /\ StartsAt(s, i, Function)
    /\ LET a == i + Len(Function)
           b == a + SpaceRun(s, a)
       IN  /\ b > a
           /\ \E w \in 1..WordRun(s, b) :
                 LET c == b + w
                     d == c + SpaceRun(s, c)
                 IN  d <= Len(s) /\ s[d] = "("

\* re.search(r'\b(async\s+)?function\s+\w+\s*\(', line)
HasFunctionHead(s) ==
    \E i \in 1..Len(s) :
        /\ Boundary(s, i)
        /\ \/ FunctionHeadAt(s, i)
           \/ /\ StartsAt(s, i, Async)
              /\ SpaceRun(s, i + Len(Async)) > 0
              /\ FunctionHeadAt(s, i + Len(Async) + SpaceRun(s, i + Len(Async)))

Keywords == {<<"c", "o", "n", "s", "t">>, <<"l", "e", "t">>, <<"v", "a", "r">>}

\* re.search(r'\b(const|let|var)\b', line)
HasDeclaration(s) ==
    \E i \in 1..Len(s) : \E k \in Keywords :
        StartsAt(s, i, k) /\ Boundary(s, i) /\ Boundary(s, i + Len(k))

\* a slip: the first branch taken without looking at the message
UseCatchAnyMessage(line, message) == Contains(line, Catch)

\* the first branch's condition
UseCatch(line, message) == Contains(line, Catch) /\ Contains(message, AllowedCaught)

\* the number of the branch taken, 1 to 5
Strategy(line, message) ==
    IF UseCatch(line, message) THEN 1
    ELSE IF Contains(line, Import) /\ (Contains(line, <<"{">>) \/ Contains(line, ImportStar))
        THEN 2
    ELSE IF \/ HasFunctionHead(line)
            \/ Contains(line, Arrow)
            \/ StartsAt(Strip(line), 1, AsyncSpace)
        THEN 3
    ELSE IF HasDeclaration(line) THEN 4
    ELSE 5

new_line_of(line, message, var_name) ==
    IF Strategy(line, message) = 1 THEN CatchSub(line, var_name)
    ELSE WordSub(line, var_name)

----------------------------------------------------------------------------
(* Files: open(...).readlines() and writelines.                            *)

Files == {"A", "B"}

\* text mode reads \r\n and \r as \n
RECURSIVE Translate(_)
Translate(t) ==
    IF t = <<>> THEN <<>>
    ELSE IF t[1] = "\r"
        THEN <<"\n">> \o Translate(IF Len(t) >= 2 /\ t[2] = "\n" THEN SubSeq(t, 3, Len(t))
                                    ELSE Tail(t))
    ELSE <<t[1]>> \o Translate(Tail(t))

RECURSIVE SplitLines(_)
SplitLines(t) ==
    IF t = <<>> THEN <<>>
    ELSE LET ends == {k \in 1..Len(t) : t[k] = "\n"}
         IN  IF ends = {} THEN <<t>>
             ELSE <<SubSeq(t, 1, Min(ends))>> \o SplitLines(SubSeq(t, Min(ends) + 1, Len(t)))

\* open(file_path, 'r').readlines()
ReadLines(t) == SplitLines(Translate(t))

\* f.writelines(lines)
RECURSIVE WriteLines(_)
WriteLines(ls) == IF ls = <<>> THEN <<>> ELSE Head(ls) \o WriteLines(Tail(ls))

----------------------------------------------------------------------------
(* One pass of the inner loop.                                             *)

NoCrash == [exc |-> "none", at |-> 0]

Raised(exc, at) == [exc |-> exc, at |-> at]

\* sorted(file_data['messages'], key=lambda x: x['line'], reverse=True):
\* stable, so messages of one line keep the report's order
RECURSIVE SortDesc(_)
SortDesc(ms) ==
    IF ms = <<>> THEN <<>>
    ELSE LET top == Max({ms[k].line : k \in 1..Len(ms)})
         IN  SelectSeq(ms, LAMBDA m : m.line = top)
                 \o SortDesc(SelectSeq(ms, LAMBDA m : m.line # top))

\* lines[line_num] is defined: Python takes a negative index from the end
InRange(buf, line_num) == line_num < Len(buf) /\ line_num >= -Len(buf)

\* the position in the buffer (from 1) that lines[line_num] names
Position(buf, line_num) == IF line_num >= 0 THEN line_num + 1 ELSE Len(buf) + line_num + 1

\* a slip: every substitution attempted counts as a change
ChangedAlways(line, new_line) == TRUE

\* new_line != line
Changed(line, new_line) == new_line # line

FixLine(n, var_name) == [kind |-> "fix", path |-> "", n |-> n, text |-> var_name]

\* the body of  for error in errors:  on one message: the exception it
\* raises if any, the buffer, the counter and the printed lines after it
FixOne(buf, total, error) ==
    LET same == [crash |-> NoCrash, lines |-> buf, total |-> total, printed |-> <<>>]
    IN
    IF "message" \notin DOMAIN error
        THEN [same EXCEPT !.crash = Raised("KeyError", 28)]
    ELSE LET message == error.message
             var_name == var_name_of(message)
             line_num == error.line - 1
         IN
         IF var_name = <<>> THEN same
         ELSE IF AlreadyPrefixed(var_name) THEN same
         ELSE IF ~InRange(buf, line_num)
             THEN [same EXCEPT !.crash = Raised("IndexError", 41)]
         ELSE LET p == Position(buf, line_num)
                  line == buf[p]
              IN
              IF ~TemplateOk(new_var_name_of(var_name))
                  THEN [same EXCEPT !.crash =
                            Raised("re.error", IF Strategy(line, message) = 1 THEN 47 ELSE 51)]
              ELSE LET new_line == new_line_of(line, message, var_name)
                   IN  IF Changed(line, new_line)
                           THEN [crash |-> NoCrash,
                                 lines |-> [buf EXCEPT ![p] = new_line],
                                 total |-> total + 1,
                                 printed |-> <<FixLine(error.line, var_name)>>]
                       ELSE same

----------------------------------------------------------------------------
(* The script.                                                             *)

\* lines 11-14: load the report
LoadReport ==
    /\ pc = "start"
    /\ IF reportFile = "missing"
           THEN pc' = "crashed" /\ crash' = Raised("FileNotFoundError", 11) /\ fi' = fi
       ELSE IF reportFile = "badjson"
           THEN pc' = "crashed" /\ crash' = Raised("JSONDecodeError", 12) /\ fi' = fi
       ELSE pc' = "entry" /\ crash' = crash /\ fi' = 1
    /\ total_fixed' = 0
    /\ UNCHANGED <<reportFile, eslint_output, noaccess, disk0, disk, run, disk1,
                   lines, lines0, errors, ei, out, written>>

\* lines 16-24: the next file entry: read the file, sort its messages
NextEntry ==
    /\ pc = "entry"
    /\ fi <= Len(eslint_output)
    /\ LET file_data == eslint_output[fi]
           stop(exc, at) ==
               /\ pc' = "crashed"
               /\ crash' = Raised(exc, at)
               /\ UNCHANGED <<errors, ei>>
       IN
       IF "filePath" \notin DOMAIN file_data
           THEN stop("KeyError", 17) /\ UNCHANGED <<lines, lines0, out>>
       ELSE LET file_path == file_data.filePath
                processing == [kind |-> "processing", path |-> file_path, n |-> 0, text |-> <<>>]
            IN
            /\ out' = Append(out, processing)
            /\ IF file_path \notin DOMAIN disk \/ noaccess[file_path] = "unreadable"
                   THEN stop("OSError", 20) /\ UNCHANGED <<lines, lines0>>
               ELSE /\ lines' = ReadLines(disk[file_path])
                    /\ lines0' = ReadLines(disk[file_path])
                    /\ IF "messages" \notin DOMAIN file_data
                           THEN stop("KeyError", 24)
                       ELSE IF \E k \in 1..Len(file_data.messages) :
                                   "line" \notin DOMAIN file_data.messages[k]
                           THEN stop("KeyError", 24)
                       ELSE /\ errors' = SortDesc(file_data.messages)
                            /\ ei' = 1
                            /\ pc' = "msg"
                            /\ crash' = crash
    /\ UNCHANGED <<reportFile, eslint_output, noaccess, disk0, disk, run, disk1,
                   fi, total_fixed, written>>

\* lines 26-65: one message of the current entry
ProcessMessage ==
    /\ pc = "msg"
    /\ ei <= Len(errors)
    /\ LET r == FixOne(lines, total_fixed, errors[ei])
       IN  /\ lines' = r.lines
           /\ total_fixed' = r.total
           /\ out' = out \o r.printed
           /\ crash' = r.crash
           /\ IF r.crash = NoCrash THEN pc' = pc /\ ei' = ei + 1
              ELSE pc' = "crashed" /\ ei' = ei
    /\ UNCHANGED <<reportFile, eslint_output, noaccess, disk0, disk, run, disk1,
                   fi, lines0, errors, written>>

Updated == [kind |-> "updated", path |-> "", n |-> 0, text |-> <<>>]

\* lines 67-70: write the buffer back
WriteBack ==
    /\ pc = "msg"
    /\ ei > Len(errors)
    /\ LET file_path == eslint_output[fi].filePath
       IN  IF noaccess[file_path] = "unwritable"
               THEN /\ pc' = "crashed"
                    /\ crash' = Raised("OSError", 68)
                    /\ UNCHANGED <<disk, fi, out, written>>
           ELSE /\ disk' = [disk EXCEPT ![file_path] = WriteLines(lines)]
                /\ out' = Append(out, Updated)
                /\ written' = written \cup {fi}
                /\ fi' = fi + 1
                /\ pc' = "entry"
                /\ crash' = crash
    /\ UNCHANGED <<reportFile, eslint_output, noaccess, disk0, run, disk1,
                   lines, lines0, errors, ei, total_fixed>>

Total(n) == [kind |-> "total", path |-> "", n |-> n, text |-> <<>>]

\* line 72: the loop is over, print the total
Finish ==
    /\ pc = "entry"
    /\ fi > Len(eslint_output)
    /\ out' = Append(out, Total(total_fixed))
    /\ pc' = "done"
    /\ UNCHANGED <<reportFile, eslint_output, noaccess, disk0, disk, run, disk1,
                   fi, lines, lines0, errors, ei, total_fixed, written, crash>>

\* the script is run a second time on the same report
Rerun ==
    /\ pc \in {"done", "crashed"}
    /\ run = 1
    /\ run' = 2
    /\ disk1' = disk
    /\ pc' = "start"
    /\ fi' = 0
    /\ lines' = <<>>
    /\ lines0' = <<>>
    /\ errors' = <<>>
    /\ ei' = 0
    /\ total_fixed' = 0
    /\ out' = <<>>
    /\ written' = {}
    /\ crash' = NoCrash
    /\ UNCHANGED <<reportFile, eslint_output, noaccess, disk0, disk>>

----------------------------------------------------------------------------
(* The inputs: reports and files.                                          *)

\* the largest number of messages in a report, over all its entries
MaxMsgs == 2

Said(var_name, rest) == <<Quote>> \o var_name \o rest

CaughtHint == <<".", " ", "A", "l", "l", "o", "w", "e", "d", " ", "u", "n", "u", "s", "e", "d", " ", "c", "a", "u", "g", "h", "t", " ", "e", "r", "r", "o", "r", "s", " ", "m", "u", "s", "t", " ", "m", "a", "t", "c", "h", " ", "/", "^", "_", "/", "u", ".">>

Unrelated == <<"U", "n", "e", "x", "p", "e", "c", "t", "e", "d", " ", "a", "n", "y", ".", " ", "S", "p", "e", "c", "i", "f", "y", " ", "a", " ", "d", "i", "f", "f", "e", "r", "e", "n", "t", " ", "t", "y", "p", "e", ".">>

\* the two files of the runs with several entries and messages
FileA == <<"c", "o", "n", "s", "t", " ", "x", " ", "=", " ", "1", ";", "\n", "f", "o", "o", "(", "x", ")", ";", "\n">>

FileB == <<"l", "e", "t", " ", "x", ";", "\n">>

\* line 3 is beyond both files, line 0 is before them
RunMessages ==
    {[line |-> n, message |-> Said(<<"x">>, IsDefined)] : n \in 0..3}
        \cup {[line |-> 1, message |-> Said(<<"_", "x">>, IsAssigned)],
              [line |-> 3, message |-> Unrelated]}

\* the sequences of exactly n messages
RECURSIVE MessageLists(_)
MessageLists(n) ==
    IF n = 0 THEN {<<>>}
    ELSE {<<m>> \o ms : m \in RunMessages, ms \in MessageLists(n - 1)}

\* the reports of at most n messages that name each file of fs at most
\* once, as ESLint's do
RECURSIVE Reports(_, _)
Reports(fs, n) ==
    {<<>>} \cup UNION {{<<[filePath |-> f, messages |-> ms]>> \o r :
                            ms \in MessageLists(j), r \in Reports(fs \ {f}, n - j)} :
                        f \in fs, j \in 0..n}

\* entries not of the expected shape: an entry or a message lacking a key.
\* The script stops at the first of them, so it is the last entry.
Misshapen ==
    {[messages |-> <<>>],
     [filePath |-> "A"],
     [filePath |-> "A", messages |-> <<[line |-> 1]>>],
     [filePath |-> "A", messages |-> <<[message |-> Said(<<"x">>, IsDefined)]>>]}

Idle ==
    /\ run = 1
    /\ disk1 = disk0
    /\ disk = disk0
    /\ pc = "start"
    /\ fi = 0
    /\ lines = <<>>
    /\ lines0 = <<>>
    /\ errors = <<>>
    /\ ei = 0
    /\ total_fixed = 0
    /\ out = <<>>
    /\ written = {}
    /\ crash = NoCrash

\* one run over any report of the bounded shape; file B may be out of reach
Init ==
    /\ disk0 = [A |-> FileA, B |-> FileB]
    /\ \/ /\ reportFile \in {"missing", "badjson"}
          /\ eslint_output = <<>>
          /\ noaccess = [A |-> "ok", B |-> "ok"]
       \/ /\ reportFile = "ok"
          /\ \E r \in Reports(Files, MaxMsgs) :
                \E e \in {<<>>} \cup {<<m>> : m \in Misshapen} : eslint_output = r \o e
          /\ noaccess \in {[A |-> "ok", B |-> b] : b \in {"ok", "unreadable", "unwritable"}}
    /\ Idle

\* the lines of the runs on one line with one message
LineTexts ==
    {<<"f", "u", "n", "c", "t", "i", "o", "n", " ", "h", "a", "n", "d", "l", "e", "r", "(", "e", "v", "e", "n", "t", ",", " ", "c", "o", "n", "t", "e", "x", "t", ")", " ", "{", "\n">>,
     <<"}", " ", "c", "a", "t", "c", "h", " ", "(", "e", "r", "r", "o", "r", ")", " ", "{", "\n">>,
     <<"}", " ", "c", "a", "t", "c", "h", "(", "e", ")", "{", " ", "l", "o", "g", "(", "e", ")", ";", " ", "}", "\n">>,
     <<"}", " ", "c", "a", "t", "c", "h", " ", "(", "{", " ", "e", "r", "r", "o", "r", " ", "}", ")", " ", "{", " ", "l", "o", "g", "(", "e", "r", "r", "o", "r", ")", ";", " ", "}", "\n">>,
     <<"c", "a", "t", "c", "h", "A", "l", "l", "(", "x", ")", ";", "\n">>,
     <<"i", "m", "p", "o", "r", "t", " ", "{", " ", "u", "s", "e", "S", "t", "a", "t", "e", ",", " ", "u", "s", "e", "E", "f", "f", "e", "c", "t", " ", "}", " ", "f", "r", "o", "m", " ", "'", "r", "e", "a", "c", "t", "'", ";", "\n">>,
     <<"c", "o", "n", "s", "t", " ", "_", "d", "a", "t", "a", " ", "=", " ", "f", "e", "t", "c", "h", "D", "a", "t", "a", "(", ")", ";", "\n">>,
     <<"c", "o", "n", "s", "t", " ", "r", "e", "s", "u", "l", "t", " ", "=", " ", "c", "o", "m", "p", "u", "t", "e", "(", ")", ";", "\n">>,
     <<"x", " ", "=", " ", "m", "a", "x", "(", "x", ")", " ", "+", " ", "$", "x", " ", "+", " ", "x", "_", "1", ";", "\n">>,
     <<"a", "$", "x", " ", "=", " ", "f", "(", "$", "x", ")", ";", "\n">>,
     <<"s", " ", "=", " ", "\"", "a", "\\", "n", "\"", " ", "+", " ", "\"", "a", "\\", "d", "\"", ";", "\n">>}

LineNames ==
    {<<"c", "o", "n", "t", "e", "x", "t">>, <<"e", "r", "r", "o", "r">>, <<"e">>, <<"u", "s", "e", "E", "f", "f", "e", "c", "t">>, <<"_", "d", "a", "t", "a">>, <<"c", "o", "u", "n", "t">>,
     <<"x">>, <<"$", "x">>, <<"a", "\\", "n">>, <<"a", "\\", "d">>}

LineMessages ==
    {Said(v, IsDefined) : v \in LineNames}
        \cup {Said(v, IsDefined) \o CaughtHint : v \in LineNames}
        \cup {Said(<<"x">>, IsAssigned), Unrelated}

\* two runs over a one-line file and a report of one message for it
InitLine ==
    /\ reportFile = "ok"
    /\ noaccess = [A |-> "ok", B |-> "ok"]
    /\ \E t \in LineTexts : disk0 = [A |-> t, B |-> FileB]
    /\ \E m \in LineMessages :
          eslint_output = <<[filePath |-> "A", messages |-> <<[line |-> 1, message |-> m]>>]>>
    /\ Idle

Next == LoadReport \/ NextEntry \/ ProcessMessage \/ WriteBack \/ Finish

NextRerun == Next \/ Rerun

Spec == Init /\ [][Next]_vars

SpecRerun == InitLine /\ [][NextRerun]_vars

----------------------------------------------------------------------------
(* The claims.                                                             *)

Ended == pc \in {"done", "crashed"}

\* an entry of the expected shape whose file can be read and written
Reachable(file_data) ==
    /\ DOMAIN file_data = {"filePath", "messages"}
    /\ \A k \in 1..Len(file_data.messages) :
          DOMAIN file_data.messages[k] = {"line", "message"}
    /\ noaccess[file_data.filePath] = "ok"

\* C1: when a file cannot be read or written back, the run goes on: every
\* other entry, before or after it, is processed and written to its file.
C1_OtherEntriesStillWritten ==
    (pc = "crashed" /\ crash.exc = "OSError") =>
        \A i \in 1..Len(eslint_output) : Reachable(eslint_output[i]) => i \in written

\* C2: a run that ends with a report-level error (the report missing,
\* unreadable or not of the expected shape) has touched no source file:
\* every file is as it was.
C2_ReportErrorWritesNothing ==
    (pc = "crashed" /\ crash.exc \in {"FileNotFoundError", "JSONDecodeError", "KeyError"}) =>
        disk = disk0

\* C3: a message whose line number is beyond the buffer is skipped: the
\* loop goes on to the next message, the buffer and the counter unchanged.
C3_BeyondLengthSkipped ==
    [][(/\ pc = "msg"
        /\ ei <= Len(errors)
        /\ "message" \in DOMAIN errors[ei]
        /\ errors[ei].line > Len(lines)) =>
            (pc' = "msg" /\ ei' = ei + 1 /\ lines' = lines /\ total_fixed' = total_fixed)]_vars

\* C4: a second run with the same report leaves the files as the first run
\* left them and applies no fix.
C4_SecondRunChangesNothing ==
    (run = 2 /\ Ended) => (disk = disk1 /\ total_fixed = 0)

\* C5: every file has as many lines as before the run.
C5_LineCountKept ==
    \A f \in Files : Len(ReadLines(disk[f])) = Len(ReadLines(disk0[f]))

\* the text of line number n after the messages of ms that name line n,
\* taken in order, have been applied to it alone
RECURSIVE OwnFixes(_, _, _)
OwnFixes(line, ms, n) ==
    IF ms = <<>> THEN line
    ELSE IF Head(ms).line # n THEN OwnFixes(line, Tail(ms), n)
    ELSE OwnFixes(FixOne(<<line>>, 0, [Head(ms) EXCEPT !.line = 1]).lines[1], Tail(ms), n)

\* C6: the messages of an entry are processed in non-increasing line order,
\* and once the entry has been dealt with each line of its file is the
\* original text changed by the messages that name that line, and by
\* nothing else.
C6_DescendingAndLineLocal ==
    ((pc = "entry" /\ fi > 1) \/ (pc = "crashed" /\ crash.exc = "IndexError")) =>
        LET file_data == eslint_output[IF pc = "entry" THEN fi - 1 ELSE fi]
            result == ReadLines(disk[file_data.filePath])
        IN  /\ \A k \in 1..(Len(errors) - 1) : errors[k].line >= errors[k + 1].line
            /\ Len(result) = Len(lines0)
            /\ \A i \in 1..Len(lines0) :
                  result[i] = OwnFixes(lines0[i], file_data.messages, i)

\* the message cannot be an unused-variable message
NotUnusedShape(message) ==
    ~Contains(message, Tail(IsDefined)) /\ ~Contains(message, Tail(IsAssigned))

\* the message names a variable that starts with an underscore
NamesPrefixed(message) ==
    var_name_of(message) # <<>> /\ Head(var_name_of(message)) = "_"

RECURSIVE MessageCount(_)
MessageCount(report) ==
    IF report = <<>> THEN 0
    ELSE (IF "messages" \in DOMAIN Head(report) THEN Len(Head(report).messages) ELSE 0)
             + MessageCount(Tail(report))

\* C7: the counter grows by one exactly in the steps that change the text of
\* a buffer line, so never for a message that is not of the unused-variable
\* shape or names a prefixed variable; it never decreases; the total printed
\* at the end is the counter.
C7_CountsChangedLinesOnly ==
    [][/\ total_fixed' =
             total_fixed + (IF pc = "msg" /\ pc' # "crashed" /\ lines' # lines THEN 1 ELSE 0)
       /\ (/\ pc = "msg"
           /\ ei <= Len(errors)
           /\ "message" \in DOMAIN errors[ei]
           /\ NotUnusedShape(errors[ei].message) \/ NamesPrefixed(errors[ei].message)) =>
               (total_fixed' = total_fixed /\ lines' = lines)
       /\ pc' = "done" => out'[Len(out')] = Total(total_fixed)]_vars

\* C7, witness: a finished run that counted one fix out of two messages
W7_OneOfTwoCounted ==
    /\ pc = "done"
    /\ MessageCount(eslint_output) = 2
    /\ total_fixed = 1
    /\ out[Len(out)] = Total(1)

----------------------------------------------------------------------------
(* Claims about the rewrite of one line, on the runs of InitLine.          *)

TheLine == ReadLines(disk0["A"])[1]

TheMessage == eslint_output[1].messages[1].message

TheName == var_name_of(TheMessage)

\* the first run has rewritten the line for a name it took from the message
Rewritten ==
    /\ run = 1
    /\ pc = "done"
    /\ TheName # <<>>
    /\ ~AlreadyPrefixed(TheName)

\* the line holds catch(<name>)
HasCatchClause(line, var_name) ==
    \E i \in 1..Len(line) : CatchMatchEnd(line, i, var_name) # 0

\* C8 as stated: the catch strategy is taken only for a line that holds
\* catch(<name>), with a message that has the caught-errors hint; any other
\* line has all whole-word occurrences of the name renamed.
C8_CatchOnlyForCatchClause ==
    Rewritten =>
        disk["A"] = IF /\ HasCatchClause(TheLine, TheName)
                       /\ Contains(TheMessage, AllowedCaught)
                        THEN CatchSub(TheLine, TheName)
                    ELSE WordSub(TheLine, TheName)

\* C8 amended: the catch strategy is taken whenever the line contains the
\* text "catch" and the message has the caught-errors hint; it rewrites the
\* catch(<name>) clauses only, and a line without one stays as it is, with
\* no fix counted; any other line has all whole-word occurrences renamed.
C8_CatchForAnyCatchText ==
    Rewritten =>
        IF Contains(TheLine, Catch) /\ Contains(TheMessage, AllowedCaught)
            THEN /\ disk["A"] = CatchSub(TheLine, TheName)
                 /\ ~HasCatchClause(TheLine, TheName) =>
                        (disk["A"] = disk0["A"] /\ total_fixed = 0)
        ELSE disk["A"] = WordSub(TheLine, TheName)

\* C8, witness: a line with "catch" but no catch(<name>), a whole-word occurrence of the
\* name, and the hint in the message: left as it was
W8_CatchTextWithoutClause ==
    /\ Rewritten
    /\ Contains(TheLine, Catch)
    /\ Contains(TheMessage, AllowedCaught)
    /\ ~HasCatchClause(TheLine, TheName)
    /\ \E i \in 1..Len(TheLine) : WordMatchAt(TheLine, i, TheName)
    /\ disk["A"] = disk0["A"]
    /\ total_fixed = 0

\* the characters of an identifier of the patched language
IdentChars == WordChars \cup {"$"}

IsIdent(s, i) == i >= 1 /\ i <= Len(s) /\ s[i] \in IdentChars

\* the name stands at position i with no identifier character on either side
WholeWordAt(s, i, var_name) ==
    /\ StartsAt(s, i, var_name)
    /\ ~IsIdent(s, i - 1)
    /\ ~IsIdent(s, i + Len(var_name))

RECURSIVE RenameFrom(_, _, _)
RenameFrom(s, i, var_name) ==
    IF i > Len(s) THEN <<>>
    ELSE IF WholeWordAt(s, i, var_name)
        THEN new_var_name_of(var_name) \o RenameFrom(s, i + Len(var_name), var_name)
    ELSE <<s[i]>> \o RenameFrom(s, i + 1, var_name)

\* C9: strategies 2-5 rename every occurrence of the name that has no
\* identifier character (letter, digit, _ or $) on either side, and no other.
C9_WholeIdentifiersOnly ==
    (/\ Rewritten
     /\ \A k \in 1..Len(TheName) : TheName[k] \in IdentChars
     /\ Strategy(TheLine, TheMessage) # 1) =>
        disk["A"] = RenameFrom(TheLine, 1, TheName)

\* C10: processing a message with line number n changes at most the buffer
\* line at index n - 1, and none when n - 1 is not in 0 .. length - 1.
C10_OnlyTheNamedLine ==
    [][(pc = "msg" /\ ei <= Len(errors)) =>
           /\ Len(lines') = Len(lines)
           /\ \A i \in 1..Len(lines) : lines'[i] # lines[i] => i = errors[ei].line]_vars

====
